---- MODULE Spec2Model ----
(***************************************************************************)
(* Model of rpy2/rinterface_lib/embedded.py: the lifecycle of the embedded *)
(* R runtime (status word, start-up options, _initr, endr) run by several  *)
(* Python threads, and the session-marker functions.                       *)
(***************************************************************************)
EXTENDS Integers, Sequences, FiniteSets, TLC

VARIABLES
    rpy2_embeddedR_isinitialized, \* the module-level status word (line 12)
    options,                      \* the module-level _options tuple (line 11)
    rlock,                        \* owner of openrlib.rlock, or NoThread
    environ,                      \* os.environ restricted to R_HOME
    rlib,                         \* the callback slots of openrlib.rlib
    rvars,                        \* the other rlib globals _initr assigns
    pc,                           \* per thread: the statement it is at
    loc,                          \* per thread: the locals of its call
    ret,                          \* outcome of the call that finished last
    ffi_mode,                     \* how openrlib bound the library (line 98)
    faults,                       \* history: _initr/endr bodies that raised
    bootCalls,                    \* history: invocations of Rf_initialize_R
    bootArgs,                     \* history: vector given to Rf_initialize_R
    mainloopCalls,                \* history: completed setup_Rmainloop calls
    hookRuns,                     \* history: invocations of R_dot_Last
    hookLog,                      \* history: hooks called by the endr in progress
    slotLog,                      \* history: callback slots in write order
    firstInitr,                   \* history: the first _initr body entered
    initrReturned,                \* history: some _initr returned normally
    endrReturned,                 \* history: some endr returned normally
    marker,                       \* os.environ['R_SESSION_INITIALIZED']
    pid,                          \* os.getpid()
    sessionRet                    \* outcome of the last session-marker call

vars == <<rpy2_embeddedR_isinitialized, options, rlock, environ, rlib, rvars,
          pc, loc, ret, ffi_mode, faults, bootCalls, bootArgs, mainloopCalls, hookRuns,
          hookLog, slotLog, firstInitr, initrReturned, endrReturned,
          marker, pid, sessionRet>>

lifeVars == <<rpy2_embeddedR_isinitialized, options, rlock, environ, rlib,
              rvars, pc, loc, ret, ffi_mode, faults, bootCalls, bootArgs, mainloopCalls,
              hookRuns, hookLog, slotLog, firstInitr, initrReturned,
              endrReturned>>

sessionVars == <<marker, pid, sessionRet>>

----------------------------------------------------------------------------
(* Bounds *)

NumThreads == 2
CounterCap == 2
MaxFaults == 1
MaxMarkerLen == 5
MaxEntryLen == 3

Threads == 1..NumThreads

(* history counters stop at CounterCap, which reads as "that many or more" *)
Count(n) == IF n < CounterCap THEN n + 1 ELSE n

(* at most MaxFaults calls raise inside a body in one behaviour; the failure
   an option that is not ASCII forces is not limited and counts once more at
   most *)
Fault(n) == IF n < MaxFaults THEN n + 1 ELSE n
MayRaise == faults < MaxFaults
NoThread == 0

----------------------------------------------------------------------------
(* RPY_R_Status and the bit operations used on the status word *)

INITIALIZED == 1
BUSY == 2
ENDED == 4

RECURSIVE BitAnd(_, _)
BitAnd(x, y) ==
    IF x = 0 \/ y = 0 THEN 0
    ELSE (x % 2) * (y % 2) + 2 * BitAnd(x \div 2, y \div 2)

RECURSIVE BitXor(_, _)
BitXor(x, y) ==
    IF x = 0 /\ y = 0 THEN 0
    ELSE (((x % 2) + (y % 2)) % 2) + 2 * BitXor(x \div 2, y \div 2)

(* Python truthiness of an int *)
Truthy(n) == n # 0

(* a variant that tests the Busy bit instead *)
isinitialized_busybit ==
    Truthy(BitAnd(rpy2_embeddedR_isinitialized, BUSY))

isinitialized ==
    Truthy(BitAnd(rpy2_embeddedR_isinitialized, INITIALIZED))

(* a variant that tests the Initialized bit only *)
isready_bit == Truthy(BitAnd(rpy2_embeddedR_isinitialized, INITIALIZED))

isready == rpy2_embeddedR_isinitialized = INITIALIZED

(* the value setinitialized() assigns to the status word *)
setinitialized == INITIALIZED

(* endr's test of the Ended bit (line 147) *)
EndedBitSet == Truthy(BitAnd(rpy2_embeddedR_isinitialized, ENDED))

(* endr's update of the status word (line 155) *)
ToggleEnded == BitXor(rpy2_embeddedR_isinitialized, ENDED)

(* a variant that locks the options only while R is ready *)
OptionsLocked_ready == rpy2_embeddedR_isinitialized = INITIALIZED

(* set_initoptions' guard (line 24): the whole status word, not one bit *)
OptionsLocked == Truthy(rpy2_embeddedR_isinitialized)

assert_isready == IF ~isready THEN "RNotReadyError" ELSE "None"

----------------------------------------------------------------------------
(* Python values: a str is its sequence of code points *)

PyStr(s) == [type |-> "str", v |-> s]
PyInt(n) == [type |-> "int", v |-> <<n>>]
isinstance_str(x) == x.type = "str"

S_rpy2 == PyStr(<<114, 112, 121, 50>>)                       \* 'rpy2'
S_quiet == PyStr(<<45, 45, 113, 117, 105, 101, 116>>)        \* '--quiet'
S_nosave == PyStr(<<45, 45, 110, 111, 45, 115, 97, 118, 101>>) \* '--no-save'
S_vanilla == PyStr(<<45, 45, 118, 97, 110, 105, 108, 108, 97>>) \* '--vanilla'
S_nonascii == PyStr(<<45, 45, 233>>)                         \* '--\xe9'

DefaultOptions == <<S_rpy2, S_quiet, S_nosave>>

(* arguments tried for set_initoptions: a tuple of str and a tuple holding
   an int; NonAsciiArgs (a str that encode('ASCII') rejects) is tried in the
   specification with failures *)
OptionArgs == { <<S_rpy2, S_vanilla>>, <<S_rpy2, PyInt(1)>> }
NonAsciiArgs == { <<S_rpy2, S_nonascii>> }

(* tuple(options): a tuple of the same items in the same order *)
Tuple(xs) == [i \in 1..Len(xs) |-> xs[i]]

(* o.encode('ASCII'): the code points as bytes, or UnicodeEncodeError *)
EncodesASCII(o) == \A i \in 1..Len(o.v) : o.v[i] < 128
EncodeASCII(o) == o.v

(* ffi.new('char[]', bytes): the bytes and the terminating NUL *)
NewCharArray(bytes) == Append(bytes, 0)

(* the list comprehension of line 110 *)
MarshalOptions(opts) ==
    [i \in 1..Len(opts) |-> NewCharArray(EncodeASCII(opts[i]))]
CanMarshal(opts) == \A i \in 1..Len(opts) : EncodesASCII(opts[i])

----------------------------------------------------------------------------
(* The callback table *)

PyNone == "<None>"

CALLBACK_INIT_PAIRS ==
    << <<"ptr_R_WriteConsoleEx", "_consolewrite_ex">>,
       <<"ptr_R_WriteConsole", PyNone>>,
       <<"ptr_R_ShowMessage", "_showmessage">>,
       <<"ptr_R_ReadConsole", "_consoleread">>,
       <<"ptr_R_FlushConsole", "_consoleflush">>,
       <<"ptr_R_ResetConsole", "_consolereset">>,
       <<"ptr_R_ChooseFile", "_choosefile">>,
       <<"ptr_R_ShowFiles", "_showfiles">>,
       <<"ptr_R_CleanUp", "_cleanup">>,
       <<"ptr_R_ProcessEvents", "_processevents">>,
       <<"ptr_R_Busy", "_busy">> >>

SlotNames == {CALLBACK_INIT_PAIRS[i][1] : i \in 1..Len(CALLBACK_INIT_PAIRS)}

FfiNULL == [module |-> "ffi", attr |-> "NULL"]
RDefault == [module |-> "R", attr |-> "default"]

(* lines 97-104: where the implementations are looked up *)
FfiModes == {"ABI", "API"}
callback_funcs(mode) == IF mode = "ABI" THEN "callbacks" ELSE "rlib"

(* a variant that looks every symbol up, None included *)
new_callback_nonull(cbs, callback_symbol) ==
    [module |-> cbs, attr |-> callback_symbol]

(* _setcallback's choice of new_callback (lines 72-75) *)
new_callback(cbs, callback_symbol) ==
    IF callback_symbol = PyNone THEN FfiNULL
    ELSE [module |-> cbs, attr |-> callback_symbol]

(* a variant that collects garbage before the temporary directory is
   cleaned *)
ExitHooks_swapped ==
    << "R_dot_Last", "R_RunExitFinalizers", "Rf_KillAllDevices",
       "R_gc", "R_CleanTempDir", "Rf_endEmbeddedR" >>

(* the exit hooks of endr, in source order (lines 149-154) *)
ExitHooks ==
    << "R_dot_Last", "R_RunExitFinalizers", "Rf_KillAllDevices",
       "R_CleanTempDir", "R_gc", "Rf_endEmbeddedR" >>

----------------------------------------------------------------------------
(* The session marker (lines 158-191).  A str is a sequence of tokens: the
   two delimiters and words that hold neither of them. *)

Colon == ":"
Equals == "="
MarkerTokens == {Colon, Equals, "PID", "current_pid", "5"}

RECURSIVE Strs(_, _)
Strs(tokens, n) ==
    IF n = 0 THEN {<<>>}
    ELSE LET S == Strs(tokens, n - 1)
         IN S \cup {Append(x, c) : x \in S, c \in tokens}

(* the marker values tried: every str of at most MaxMarkerLen tokens, and
   every str of two entries of at most MaxEntryLen tokens each *)
MarkerStrs(len, entrylen) ==
    LET Entries == Strs(MarkerTokens \ {Colon}, entrylen)
    IN Strs(MarkerTokens, len)
           \cup {a \o <<Colon>> \o b : a \in Entries, b \in Entries}

(* os.environ.get(_R_SESSION_INITIALIZED): None when the variable is unset *)
EnvUnset == [set |-> FALSE, s |-> <<>>]
EnvStr(x) == [set |-> TRUE, s |-> x]
Markers(len, entrylen) ==
    {EnvUnset} \cup {EnvStr(x) : x \in MarkerStrs(len, entrylen)}
Pids == {5, 7}

(* Python values held by the mapping *)
IntV(n) == [type |-> "int", n |-> n, s |-> <<>>]
StrV(x) == [type |-> "str", n |-> 0, s |-> x]
NoneV == [type |-> "None", n |-> 0, s |-> <<>>]

DigitToken(d) == <<"0", "1", "2", "3", "4", "5", "6", "7", "8", "9">>[d + 1]

RECURSIVE Decimal(_)
Decimal(n) ==
    IF n < 10 THEN <<DigitToken(n)>>
    ELSE Append(Decimal(n \div 10), DigitToken(n % 10))

(* str(x) *)
str(x) ==
    CASE x.type = "int" -> Decimal(x.n)
      [] x.type = "str" -> x.s
      [] OTHER -> <<"None">>

(* the position of the first sep in x, or 0 *)
RECURSIVE Find(_, _, _)
Find(x, sep, i) ==
    IF i > Len(x) THEN 0
    ELSE IF x[i] = sep THEN i ELSE Find(x, sep, i + 1)

(* x.split(sep): every piece, the empty ones too *)
RECURSIVE Split(_, _)
Split(x, sep) ==
    LET i == Find(x, sep, 1)
    IN IF i = 0 THEN <<x>>
       ELSE <<SubSeq(x, 1, i - 1)>> \o Split(SubSeq(x, i + 1, Len(x)), sep)

(* x.split(sep, 1): cut at the first sep only *)
Split1(x, sep) ==
    LET i == Find(x, sep, 1)
    IN IF i = 0 THEN <<x>>
       ELSE <<SubSeq(x, 1, i - 1), SubSeq(x, i + 1, Len(x))>>

(* res[key] = value on a dict *)
SetItem(res, key, value) ==
    [k \in DOMAIN res \cup {key} |-> IF k = key THEN value ELSE res[k]]

(* res.get(key) *)
Get(res, key) == IF key \in DOMAIN res THEN res[key] ELSE NoneV

K_current_pid == <<"current_pid">>
K_PID == <<"PID">>

(* the loop of lines 177-185 from item i on.  st holds the dict, the loop
   variables key and value (unbound until a first unpacking succeeds), the
   warnings issued and the exception that ended the loop, if any.  Line 185
   runs after the try statement, so also after a warning. *)
RECURSIVE ParseItems(_, _, _)
ParseItems(items, i, st) ==
    IF i > Len(items) \/ st.raised # "" THEN st
    ELSE LET parts == Split1(items[i], Equals)
             ok == Len(parts) = 2
             bound == st.bound \/ ok
             key == IF ok THEN parts[1] ELSE st.key
             value == IF ok THEN parts[2] ELSE st.value
             warned == IF ok THEN st.warned ELSE st.warned + 1
         IN IF ~bound
            THEN [st EXCEPT !.warned = warned, !.raised = "UnboundLocalError"]
            ELSE ParseItems(items, i + 1,
                   [st EXCEPT !.bound = TRUE, !.key = key, !.value = value,
                              !.warned = warned,
                              !.res = SetItem(st.res, key, StrV(value))])

(* get_r_session_status(r_session_init), lines 163-186; r_session_init is
   an EnvUnset/EnvStr record, EnvUnset standing for None *)
get_r_session_status(r_session_init, env, p) ==
    LET init == IF ~r_session_init.set THEN env ELSE r_session_init
        st0 == [res |-> (K_current_pid :> IntV(p)), key |-> <<>>,
                value |-> <<>>, bound |-> FALSE, warned |-> 0, raised |-> ""]
    IN IF init.set /\ init.s # <<>>
       THEN ParseItems(Split(init.s, Colon), 1, st0)
       ELSE st0

(* is_r_externally_initialized(), lines 189-191 *)
is_r_externally_initialized(env, p) ==
    LET r_status == get_r_session_status(EnvUnset, env, p)
    IN [raised |-> r_status.raised,
        value |-> r_status.raised = "" /\
                  str(r_status.res[K_current_pid]) = str(Get(r_status.res, K_PID))]

NoSessionRet ==
    [op |-> "", raised |-> "", warned |-> 0,
     res |-> (K_current_pid :> IntV(0)), value |-> FALSE]

SessionInit ==
    /\ marker = EnvUnset
    /\ pid \in {5}
    /\ sessionRet = NoSessionRet

----------------------------------------------------------------------------
(* Per-thread call records *)

NoArg == <<>>
LocInit ==
    [want |-> FALSE, fatal |-> 0, arg |-> NoArg, i |-> 0,
     cbs |-> "", options_c |-> <<>>, status |-> 0, first |-> FALSE]

NoRet == [op |-> "", kind |-> "none", exc |-> "", val |-> 0]
(* a variant that returns 0 whatever the captured status code *)
Returned_zero(op, v) == [op |-> op, kind |-> "return", exc |-> "", val |-> 0]
Returned(op, v) == [op |-> op, kind |-> "return", exc |-> "", val |-> v]
ReturnedNone(op) == [op |-> op, kind |-> "return", exc |-> "None", val |-> 0]
Raised(op, e) == [op |-> op, kind |-> "raise", exc |-> e, val |-> 0]

NoFirst == [want |-> FALSE, outcome |-> "none"]

(* integer status codes Rf_initialize_R may hand back *)
RStatusCodes == {0, 1}
FatalValues == {0, 1}

(* a variant that enters the body without waiting *)
LockFree_nowait == TRUE

(* with openrlib.rlock: the body is entered only when no thread owns it *)
LockFree == rlock = NoThread

LifeInit ==
    /\ rpy2_embeddedR_isinitialized = 0
    /\ options = DefaultOptions
    /\ rlock = NoThread
    /\ environ = [R_HOME |-> "<unset>"]
    /\ rlib = [s \in SlotNames |-> RDefault]
    /\ rvars = [R_Outputfile |-> "default", R_Consolefile |-> "default",
                R_SignalHandlers |-> "default", R_CStackLimit |-> "default"]
    /\ pc = [t \in Threads |-> "idle"]
    /\ loc = [t \in Threads |-> LocInit]
    /\ ret = NoRet
    /\ ffi_mode \in FfiModes
    /\ faults = 0
    /\ bootCalls = 0
    /\ bootArgs = <<>>
    /\ mainloopCalls = 0
    /\ hookRuns = 0
    /\ hookLog = <<>>
    /\ slotLog = <<>>
    /\ firstInitr = NoFirst
    /\ initrReturned = FALSE
    /\ endrReturned = FALSE

Init == LifeInit /\ SessionInit

----------------------------------------------------------------------------
(* Leaving a call *)

FirstDone(t, how) ==
    IF loc[t].first
    THEN [firstInitr EXCEPT !.outcome = how]
    ELSE firstInitr

(* a variant that leaves the body without releasing the lock *)
LeaveBody_keeplock(t, r) ==
    /\ pc' = [pc EXCEPT ![t] = "idle"]
    /\ loc' = [loc EXCEPT ![t] = LocInit]
    /\ ret' = r
    /\ hookLog' = <<>>
    /\ UNCHANGED rlock

(* a return from inside `with openrlib.rlock:` releases the lock *)
LeaveBody(t, r) ==
    /\ pc' = [pc EXCEPT ![t] = "idle"]
    /\ loc' = [loc EXCEPT ![t] = LocInit]
    /\ ret' = r
    /\ rlock' = NoThread
    /\ hookLog' = <<>>

(* an exception raised inside the body leaves it through the same exit *)
RaiseInBody(t, op, e) ==
    /\ LeaveBody(t, Raised(op, e))
    /\ faults' = Fault(faults)
    /\ firstInitr' = FirstDone(t, "raised")

Goto(t, label) == pc' = [pc EXCEPT ![t] = label]

----------------------------------------------------------------------------
(* set_initoptions (lines 23-30): the status test, then the store *)

set_initoptions_check(t, arg) ==
    /\ pc[t] = "idle"
    /\ IF OptionsLocked
       THEN /\ ret' = Raised("set_initoptions", "RuntimeError")
            /\ UNCHANGED <<pc, loc>>
       ELSE /\ Goto(t, "setopt_store")
            /\ loc' = [loc EXCEPT ![t].arg = arg]
            /\ ret' = NoRet
    /\ UNCHANGED <<rpy2_embeddedR_isinitialized, options, rlock, environ,
                   rlib, rvars, ffi_mode, faults, bootCalls, bootArgs,
                   mainloopCalls, hookRuns, hookLog, slotLog, firstInitr,
                   initrReturned, endrReturned, sessionVars>>

set_initoptions_store(t) ==
    /\ pc[t] = "setopt_store"
    /\ IF \A i \in 1..Len(loc[t].arg) : isinstance_str(loc[t].arg[i])
       THEN /\ options' = Tuple(loc[t].arg)
            /\ ret' = ReturnedNone("set_initoptions")
       ELSE /\ ret' = Raised("set_initoptions", "AssertionError")
            /\ UNCHANGED options
    /\ Goto(t, "idle")
    /\ loc' = [loc EXCEPT ![t] = LocInit]
    /\ UNCHANGED <<rpy2_embeddedR_isinitialized, rlock, environ,
                   rlib, rvars, ffi_mode, faults, bootCalls, bootArgs,
                   mainloopCalls, hookRuns, hookLog, slotLog, firstInitr,
                   initrReturned, endrReturned, sessionVars>>

get_initoptions == options

(* assert_isready (lines 55-58) *)
AssertIsready(t) ==
    /\ pc[t] = "idle"
    /\ ret' = IF assert_isready = "None" THEN ReturnedNone("assert_isready")
                 ELSE Raised("assert_isready", assert_isready)
    /\ UNCHANGED <<rpy2_embeddedR_isinitialized, options, rlock, environ,
                   rlib, rvars, pc, loc, ffi_mode, faults, bootCalls,
                   bootArgs, mainloopCalls, hookRuns, hookLog, slotLog,
                   firstInitr, initrReturned, endrReturned, sessionVars>>

----------------------------------------------------------------------------
(* _initr (lines 93-140) *)

(* the call: lines 95-104 pick the source of the callbacks *)
initr_call(t, interactive, want) ==
    /\ pc[t] = "idle"
    /\ Goto(t, "initr_lock")
    /\ loc' = [loc EXCEPT ![t] = [LocInit EXCEPT
                  !.want = want, !.cbs = callback_funcs(ffi_mode)]]
    /\ ret' = NoRet
    /\ UNCHANGED <<rpy2_embeddedR_isinitialized, options, rlock, environ,
                   rlib, rvars, ffi_mode, faults, bootCalls, bootArgs,
                   mainloopCalls, hookRuns, hookLog, slotLog, firstInitr,
                   initrReturned, endrReturned, sessionVars>>

(* line 106: with openrlib.rlock, entered once no thread owns the lock *)
initr_acquire(t) ==
    /\ pc[t] = "initr_lock"
    /\ LockFree
    /\ rlock' = t
    /\ Goto(t, "initr_check")
    /\ loc' = [loc EXCEPT ![t].first = firstInitr.outcome = "none"]
    /\ firstInitr' = IF firstInitr.outcome = "none"
                     THEN [want |-> loc[t].want, outcome |-> "running"]
                     ELSE firstInitr
    /\ ret' = NoRet
    /\ UNCHANGED <<rpy2_embeddedR_isinitialized, options, environ, rlib,
                   rvars, ffi_mode, faults, bootCalls, bootArgs,
                   mainloopCalls, hookRuns, hookLog, slotLog,
                   initrReturned, endrReturned, sessionVars>>

(* a variant without the early return *)
initr_check_skip(t) ==
    /\ pc[t] = "initr_check"
    /\ Goto(t, "initr_environ")
    /\ ret' = NoRet
    /\ UNCHANGED <<rpy2_embeddedR_isinitialized, options, rlock, environ,
                   rlib, rvars, loc, ffi_mode, faults, bootCalls, bootArgs,
                   mainloopCalls, hookRuns, hookLog, slotLog, firstInitr,
                   initrReturned, endrReturned, sessionVars>>

(* lines 107-108: if isinitialized(): return *)
initr_check(t) ==
    /\ pc[t] = "initr_check"
    /\ IF isinitialized
       THEN /\ LeaveBody(t, ReturnedNone("_initr"))
            /\ initrReturned' = TRUE
            /\ firstInitr' = FirstDone(t, "returned")
       ELSE /\ Goto(t, "initr_environ")
            /\ ret' = NoRet
            /\ UNCHANGED <<hookLog, loc, rlock, initrReturned, firstInitr>>
    /\ UNCHANGED <<rpy2_embeddedR_isinitialized, options, environ, rlib,
                   rvars, ffi_mode, faults, bootCalls, bootArgs,
                   mainloopCalls, hookRuns, slotLog, endrReturned,
                   sessionVars>>

(* line 109: os.environ['R_HOME'] = openrlib.R_HOME *)
initr_environ(t) ==
    /\ pc[t] = "initr_environ"
    /\ environ' = [environ EXCEPT !.R_HOME = "openrlib.R_HOME"]
    /\ Goto(t, "initr_marshal")
    /\ ret' = NoRet
    /\ UNCHANGED <<rpy2_embeddedR_isinitialized, options, rlock, rlib, rvars,
                   loc, ffi_mode, faults, bootCalls, bootArgs,
                   mainloopCalls, hookRuns, hookLog, slotLog, firstInitr,
                   initrReturned, endrReturned, sessionVars>>

(* lines 110-112: options_c from the current _options *)
initr_marshal(t) ==
    /\ pc[t] = "initr_marshal"
    /\ IF CanMarshal(options)
       THEN /\ loc' = [loc EXCEPT ![t].options_c = MarshalOptions(options)]
            /\ Goto(t, "initr_boot")
            /\ ret' = NoRet
            /\ UNCHANGED <<hookLog, rlock, faults, firstInitr>>
       ELSE RaiseInBody(t, "_initr", "UnicodeEncodeError")
    /\ UNCHANGED <<rpy2_embeddedR_isinitialized, options, environ, rlib,
                   rvars, ffi_mode, bootCalls, bootArgs,
                   mainloopCalls, hookRuns, slotLog, initrReturned,
                   endrReturned, sessionVars>>

(* lines 113-114: status = rlib.Rf_initialize_R(n_options_c, options_c) *)
initr_boot(t, code) ==
    /\ pc[t] = "initr_boot"
    /\ bootCalls' = Count(bootCalls)
    /\ bootArgs' = loc[t].options_c
    /\ loc' = [loc EXCEPT ![t].status = code]
    /\ Goto(t, "initr_setinitialized")
    /\ ret' = NoRet
    /\ UNCHANGED <<rpy2_embeddedR_isinitialized, options, rlock, environ,
                   rlib, rvars, ffi_mode, faults, mainloopCalls,
                   hookRuns, hookLog, slotLog, firstInitr, initrReturned,
                   endrReturned, sessionVars>>

initr_boot_raise(t) ==
    /\ pc[t] = "initr_boot"
    /\ MayRaise
    /\ bootCalls' = Count(bootCalls)
    /\ bootArgs' = loc[t].options_c
    /\ RaiseInBody(t, "_initr", "NativeError")
    /\ UNCHANGED <<rpy2_embeddedR_isinitialized, options, environ, rlib,
                   rvars, ffi_mode, mainloopCalls, hookRuns, slotLog,
                   initrReturned, endrReturned, sessionVars>>

(* line 115: setinitialized() *)
initr_setinitialized(t) ==
    /\ pc[t] = "initr_setinitialized"
    /\ rpy2_embeddedR_isinitialized' = setinitialized
    /\ Goto(t, "initr_files")
    /\ ret' = NoRet
    /\ UNCHANGED <<options, rlock, environ, rlib, rvars, loc, ffi_mode, faults, bootCalls, bootArgs, mainloopCalls,
                   hookRuns, hookLog, slotLog, firstInitr, initrReturned,
                   endrReturned, sessionVars>>

(* lines 124-125: R_Outputfile and R_Consolefile = ffi.NULL *)
initr_files(t) ==
    /\ pc[t] = "initr_files"
    /\ rvars' = [rvars EXCEPT !.R_Outputfile = "ffi.NULL",
                              !.R_Consolefile = "ffi.NULL"]
    /\ Goto(t, "initr_signals")
    /\ ret' = NoRet
    /\ UNCHANGED <<rpy2_embeddedR_isinitialized, options, rlock, environ,
                   rlib, loc, ffi_mode, faults, bootCalls,
                   bootArgs, mainloopCalls, hookRuns, hookLog, slotLog,
                   firstInitr, initrReturned, endrReturned, sessionVars>>

(* lines 128-131: R_SignalHandlers = 0, then the loop is entered or skipped *)
initr_signals(t) ==
    /\ pc[t] = "initr_signals"
    /\ rvars' = [rvars EXCEPT !.R_SignalHandlers = "0"]
    /\ IF loc[t].want
       THEN /\ Goto(t, "initr_setcallback")
            /\ loc' = [loc EXCEPT ![t].i = 1]
       ELSE /\ Goto(t, "initr_stacklimit")
            /\ UNCHANGED loc
    /\ ret' = NoRet
    /\ UNCHANGED <<rpy2_embeddedR_isinitialized, options, rlock, environ,
                   rlib, ffi_mode, faults, bootCalls,
                   bootArgs, mainloopCalls, hookRuns, hookLog, slotLog,
                   firstInitr, initrReturned, endrReturned, sessionVars>>

(* lines 131-133 with _setcallback (70-76): one pair of the table *)
initr_setcallback(t) ==
    /\ pc[t] = "initr_setcallback"
    /\ LET rlib_symbol == CALLBACK_INIT_PAIRS[loc[t].i][1]
           callback_symbol == CALLBACK_INIT_PAIRS[loc[t].i][2]
       IN /\ rlib' = [rlib EXCEPT ![rlib_symbol] =
                         new_callback(loc[t].cbs, callback_symbol)]
          /\ slotLog' = Append(slotLog, rlib_symbol)
    /\ IF loc[t].i < Len(CALLBACK_INIT_PAIRS)
       THEN /\ loc' = [loc EXCEPT ![t].i = loc[t].i + 1]
            /\ UNCHANGED pc
       ELSE /\ loc' = [loc EXCEPT ![t].i = 0]
            /\ Goto(t, "initr_stacklimit")
    /\ ret' = NoRet
    /\ UNCHANGED <<rpy2_embeddedR_isinitialized, options, rlock, environ,
                   rvars, ffi_mode, faults, bootCalls,
                   bootArgs, mainloopCalls, hookRuns, hookLog,
                   firstInitr, initrReturned, endrReturned, sessionVars>>

(* getattr(callbacks, callback_symbol) raising AttributeError (line 75) *)
initr_setcallback_raise(t) ==
    /\ pc[t] = "initr_setcallback"
    /\ MayRaise
    /\ CALLBACK_INIT_PAIRS[loc[t].i][2] # PyNone
    /\ RaiseInBody(t, "_initr", "AttributeError")
    /\ UNCHANGED <<rpy2_embeddedR_isinitialized, options, environ, rlib,
                   rvars, ffi_mode, bootCalls, bootArgs, mainloopCalls,
                   hookRuns, slotLog, initrReturned, endrReturned,
                   sessionVars>>

(* line 136: R_CStackLimit = ffi.cast('uintptr_t', -1) *)
initr_stacklimit(t) ==
    /\ pc[t] = "initr_stacklimit"
    /\ rvars' = [rvars EXCEPT !.R_CStackLimit = "UINTPTR_MAX"]
    /\ Goto(t, "initr_mainloop")
    /\ ret' = NoRet
    /\ UNCHANGED <<rpy2_embeddedR_isinitialized, options, rlock, environ,
                   rlib, loc, ffi_mode, faults, bootCalls,
                   bootArgs, mainloopCalls, hookRuns, hookLog, slotLog,
                   firstInitr, initrReturned, endrReturned, sessionVars>>

(* lines 138-140: rlib.setup_Rmainloop(); return status *)
initr_mainloop(t) ==
    /\ pc[t] = "initr_mainloop"
    /\ mainloopCalls' = Count(mainloopCalls)
    /\ LeaveBody(t, Returned("_initr", loc[t].status))
    /\ initrReturned' = TRUE
    /\ firstInitr' = FirstDone(t, "returned")
    /\ UNCHANGED <<rpy2_embeddedR_isinitialized, options, environ, rlib,
                   rvars, ffi_mode, faults, bootCalls, bootArgs,
                   hookRuns, slotLog, endrReturned, sessionVars>>

(* a variant that takes the Initialized mark back when setup_Rmainloop
   raises *)
initr_mainloop_raise_rollback(t) ==
    /\ pc[t] = "initr_mainloop"
    /\ MayRaise
    /\ rpy2_embeddedR_isinitialized' = 0
    /\ RaiseInBody(t, "_initr", "NativeError")
    /\ UNCHANGED <<options, environ, rlib,
                   rvars, ffi_mode, bootCalls, bootArgs, mainloopCalls,
                   hookRuns, slotLog, initrReturned, endrReturned,
                   sessionVars>>

(* setup_Rmainloop raising (line 138) *)
initr_mainloop_raise(t) ==
    /\ pc[t] = "initr_mainloop"
    /\ MayRaise
    /\ RaiseInBody(t, "_initr", "NativeError")
    /\ UNCHANGED <<rpy2_embeddedR_isinitialized, options, environ, rlib,
                   rvars, ffi_mode, bootCalls, bootArgs, mainloopCalls,
                   hookRuns, slotLog, initrReturned, endrReturned,
                   sessionVars>>

----------------------------------------------------------------------------
(* endr (lines 143-155) *)

endr_call(t, fatal) ==
    /\ pc[t] = "idle"
    /\ Goto(t, "endr_lock")
    /\ loc' = [loc EXCEPT ![t] = [LocInit EXCEPT !.fatal = fatal]]
    /\ ret' = NoRet
    /\ UNCHANGED <<rpy2_embeddedR_isinitialized, options, rlock, environ,
                   rlib, rvars, ffi_mode, faults, bootCalls, bootArgs,
                   mainloopCalls, hookRuns, hookLog, slotLog, firstInitr,
                   initrReturned, endrReturned, sessionVars>>

(* line 146: with openrlib.rlock *)
endr_acquire(t) ==
    /\ pc[t] = "endr_lock"
    /\ LockFree
    /\ rlock' = t
    /\ Goto(t, "endr_check")
    /\ ret' = NoRet
    /\ UNCHANGED <<rpy2_embeddedR_isinitialized, options, environ, rlib,
                   rvars, loc, ffi_mode, faults, bootCalls, bootArgs,
                   mainloopCalls, hookRuns, hookLog, slotLog, firstInitr,
                   initrReturned, endrReturned, sessionVars>>

(* lines 147-148: if the Ended bit is set: return *)
endr_check(t) ==
    /\ pc[t] = "endr_check"
    /\ IF EndedBitSet
       THEN /\ LeaveBody(t, ReturnedNone("endr"))
            /\ endrReturned' = TRUE
       ELSE /\ Goto(t, "endr_hook")
            /\ loc' = [loc EXCEPT ![t].i = 1]
            /\ ret' = NoRet
            /\ UNCHANGED <<hookLog, rlock, endrReturned>>
    /\ UNCHANGED <<rpy2_embeddedR_isinitialized, options, environ, rlib,
                   rvars, ffi_mode, faults, bootCalls, bootArgs,
                   mainloopCalls, hookRuns, slotLog, firstInitr,
                   initrReturned, sessionVars>>

(* lines 149-154: the next exit hook; Rf_endEmbeddedR takes fatal *)
HookCall(t) ==
    IF ExitHooks[loc[t].i] = "Rf_endEmbeddedR"
    THEN <<ExitHooks[loc[t].i], loc[t].fatal>>
    ELSE <<ExitHooks[loc[t].i]>>

endr_hook(t) ==
    /\ pc[t] = "endr_hook"
    /\ hookLog' = Append(hookLog, HookCall(t))
    /\ hookRuns' = IF loc[t].i = 1 THEN Count(hookRuns) ELSE hookRuns
    /\ IF loc[t].i < Len(ExitHooks)
       THEN /\ loc' = [loc EXCEPT ![t].i = loc[t].i + 1]
            /\ UNCHANGED pc
       ELSE /\ loc' = [loc EXCEPT ![t].i = 0]
            /\ Goto(t, "endr_toggle")
    /\ ret' = NoRet
    /\ UNCHANGED <<rpy2_embeddedR_isinitialized, options, rlock, environ,
                   rlib, rvars, ffi_mode, faults, bootCalls,
                   bootArgs, mainloopCalls, slotLog, firstInitr,
                   initrReturned, endrReturned, sessionVars>>

endr_hook_raise(t) ==
    /\ pc[t] = "endr_hook"
    /\ MayRaise
    /\ hookRuns' = IF loc[t].i = 1 THEN Count(hookRuns) ELSE hookRuns
    /\ RaiseInBody(t, "endr", "NativeError")
    /\ UNCHANGED <<rpy2_embeddedR_isinitialized, options, environ, rlib,
                   rvars, ffi_mode, bootCalls, bootArgs, mainloopCalls,
                   slotLog, initrReturned, endrReturned, sessionVars>>

(* line 155: rpy2_embeddedR_isinitialized ^= ENDED, and the return *)
endr_toggle(t) ==
    /\ pc[t] = "endr_toggle"
    /\ rpy2_embeddedR_isinitialized' = ToggleEnded
    /\ LeaveBody(t, ReturnedNone("endr"))
    /\ endrReturned' = TRUE
    /\ UNCHANGED <<options, environ, rlib, rvars, ffi_mode, faults,
                   bootCalls, bootArgs, mainloopCalls, hookRuns, slotLog, firstInitr, initrReturned, sessionVars>>

----------------------------------------------------------------------------
(* The lifecycle specification *)

Next ==
    \E t \in Threads :
        \/ \E arg \in OptionArgs : set_initoptions_check(t, arg)
        \/ set_initoptions_store(t)
        \/ AssertIsready(t)
        \/ \E interactive \in BOOLEAN, want \in BOOLEAN :
               initr_call(t, interactive, want)
        \/ initr_acquire(t)
        \/ initr_check(t)
        \/ initr_environ(t)
        \/ initr_marshal(t)
        \/ \E code \in RStatusCodes : initr_boot(t, code)
        \/ initr_setinitialized(t)
        \/ initr_files(t)
        \/ initr_signals(t)
        \/ initr_setcallback(t)
        \/ initr_stacklimit(t)
        \/ initr_mainloop(t)
        \/ \E fatal \in FatalValues : endr_call(t, fatal)
        \/ endr_acquire(t)
        \/ endr_check(t)
        \/ endr_hook(t)
        \/ endr_toggle(t)

Spec == Init /\ [][Next]_vars

(* the lifecycle with native calls that may raise *)
NextFaults ==
    \/ Next
    \/ \E t \in Threads :
        \/ \E arg \in NonAsciiArgs : set_initoptions_check(t, arg)
        \/ initr_boot_raise(t)
        \/ initr_setcallback_raise(t)
        \/ initr_mainloop_raise(t)
        \/ endr_hook_raise(t)

SpecFaults == Init /\ [][NextFaults]_vars

----------------------------------------------------------------------------
(* The session-marker calls *)

(* explicit r_session_init arguments tried *)
SessionArgs == {EnvUnset, EnvStr(<<>>), EnvStr(<<"PID", Equals, "7">>)}

GetRSessionStatus(arg) ==
    /\ LET r == get_r_session_status(arg, marker, pid)
       IN sessionRet' = [op |-> "get_r_session_status", raised |-> r.raised,
                         warned |-> r.warned, res |-> r.res, value |-> FALSE]
    /\ UNCHANGED <<lifeVars, marker, pid>>

IsRExternallyInitialized ==
    /\ LET r == is_r_externally_initialized(marker, pid)
       IN sessionRet' = [NoSessionRet EXCEPT
                            !.op = "is_r_externally_initialized",
                            !.raised = r.raised, !.value = r.value]
    /\ UNCHANGED <<lifeVars, marker, pid>>

InitSession ==
    /\ LifeInit
    /\ ffi_mode = "ABI"
    /\ marker \in Markers(MaxMarkerLen, MaxEntryLen)
    /\ pid \in Pids
    /\ sessionRet = NoSessionRet

NextSession ==
    \/ \E arg \in SessionArgs : GetRSessionStatus(arg)
    \/ IsRExternallyInitialized

SpecSession == InitSession /\ [][NextSession]_vars

----------------------------------------------------------------------------
(* Properties *)

InitrBody ==
    {"initr_check", "initr_environ", "initr_marshal", "initr_boot",
     "initr_setinitialized", "initr_files", "initr_signals",
     "initr_setcallback", "initr_stacklimit", "initr_mainloop"}
EndrBody == {"endr_check", "endr_hook", "endr_toggle"}
InBody(t) == pc[t] \in InitrBody \cup EndrBody

(* C1: while no call has raised, Rf_initialize_R has been invoked at most
   once; it has not been invoked before the first _initr body is entered; it
   is invoked by the first _initr body only; and once any _initr has
   returned it has been invoked exactly once. *)
C1_BootstrapOnce ==
    faults = 0 =>
        /\ bootCalls <= 1
        /\ firstInitr.outcome = "none" => bootCalls = 0
        /\ initrReturned => bootCalls = 1
        /\ \A t \in Threads :
               pc[t] \in {"initr_environ", "initr_marshal", "initr_boot"}
                   => loc[t].first /\ bootCalls = 0

(* a later _initr has just returned through the early return, after the
   first one performed the bootstrap *)
C1_Witness ==
    /\ ret.op = "_initr" /\ ret.kind = "return" /\ ret.exc = "None"
    /\ firstInitr.outcome = "returned"
    /\ bootCalls = 1
    /\ endrReturned

(* C2: while no call has raised, the exit-hook sequence has been started at
   most once. *)
C2_ExitHooksOnce == faults = 0 => hookRuns <= 1

(* C3: isready() is false before any _initr body is entered, true in the
   state a performing _initr returns into, and false in every state after
   some endr has returned. *)
C3_ReadyLifecycle ==
    /\ firstInitr.outcome = "none" => ~isready
    /\ (ret.op = "_initr" /\ ret.kind = "return" /\ ret.exc = "") => isready
    /\ endrReturned => ~isready

(* C4: once some _initr has returned, every set_initoptions call raises
   RuntimeError whatever its argument, and the step leaves the stored
   options, hence what get_initoptions returns, as they were. *)
C4_OptionsFrozen ==
    [][\A t \in Threads : \A arg \in OptionArgs \cup NonAsciiArgs :
          (initrReturned /\ set_initoptions_check(t, arg))
              => /\ ret' = Raised("set_initoptions", "RuntimeError")
                 /\ pc'[t] = "idle"
                 /\ get_initoptions' = get_initoptions]_vars

(* set_initoptions has just raised RuntimeError after an _initr and an endr
   have returned *)
C4_Witness ==
    /\ ret = Raised("set_initoptions", "RuntimeError")
    /\ initrReturned
    /\ endrReturned
    /\ rpy2_embeddedR_isinitialized = INITIALIZED + ENDED

(* C5: a set_initoptions call raises the state error exactly when
   isinitialized() is true, and otherwise goes on to store its argument. *)
C5_RaisesIffInitialized ==
    [][\A t \in Threads : \A arg \in OptionArgs :
          set_initoptions_check(t, arg)
              => ((ret' = Raised("set_initoptions", "RuntimeError"))
                     <=> isinitialized)]_vars

(* the marker holds an entry key=value among its ':'-separated segments *)
HasEntry(m, key, value) ==
    /\ m.set
    /\ \E i \in 1..Len(Split(m.s, Colon)) :
           Split1(Split(m.s, Colon)[i], Equals) = <<key, value>>

(* C6: whenever is_r_externally_initialized() returns, its result is true
   exactly when the marker holds a PID entry whose value is the decimal
   form of the id of the current process. *)
C6_ExternalIffPidEntry ==
    (sessionRet.op = "is_r_externally_initialized" /\ sessionRet.raised = "")
        => (sessionRet.value <=> HasEntry(marker, K_PID, Decimal(pid)))

(* C7: get_r_session_status never ends with an exception, whatever the
   marker and wherever a segment without '=' sits in it. *)
C7_NeverRaises ==
    sessionRet.op = "get_r_session_status" => sessionRet.raised = ""

(* C8: once the first _initr has returned, if it asked for the callbacks
   the slots written are the 11 of CALLBACK_INIT_PAIRS, once each and in
   table order, the slot paired with None holds NULL and every other slot
   holds the attribute named in its pair; if it did not ask, no slot has
   been written.  As the property holds in every later state, no later
   _initr writes a slot. *)
C8_CallbacksOnce ==
    firstInitr.outcome = "returned" =>
        IF firstInitr.want
        THEN /\ Len(CALLBACK_INIT_PAIRS) = 11
             /\ slotLog = [i \in 1..Len(CALLBACK_INIT_PAIRS) |->
                              CALLBACK_INIT_PAIRS[i][1]]
             /\ Cardinality({slotLog[i] : i \in 1..Len(slotLog)}) = 11
             /\ rlib["ptr_R_WriteConsole"] = FfiNULL
             /\ \A i \in 1..Len(CALLBACK_INIT_PAIRS) :
                    LET pair == CALLBACK_INIT_PAIRS[i]
                    IN rlib[pair[1]] =
                           IF pair[2] = PyNone THEN FfiNULL
                           ELSE [module |-> callback_funcs(ffi_mode),
                                 attr |-> pair[2]]
        ELSE /\ slotLog = <<>>
             /\ \A s \in SlotNames : rlib[s] = RDefault

(* a later _initr has just returned after a first one bound the callbacks *)
C8_Witness ==
    /\ ret = ReturnedNone("_initr")
    /\ firstInitr = [want |-> TRUE, outcome |-> "returned"]
    /\ Len(slotLog) = Len(CALLBACK_INIT_PAIRS)

(* C9: at most one thread is inside a lock-guarded body, that thread owns
   the lock, so every native step is taken by the owner alone, and
   Rf_initialize_R is invoked at most once, exactly once when some _initr
   has returned. *)
C9_BodiesExclusive ==
    /\ \A t, u \in Threads : (InBody(t) /\ InBody(u)) => t = u
    /\ \A t \in Threads : InBody(t) => rlock = t
    /\ bootCalls <= 1
    /\ initrReturned => bootCalls = 1

(* one thread is about to run setup_Rmainloop while another waits for the
   lock *)
C9_Witness ==
    \E t, u \in Threads :
        /\ t # u
        /\ pc[t] = "initr_mainloop"
        /\ pc[u] \in {"initr_lock", "endr_lock"}
        /\ bootCalls = 1

(* C10: isready() is true only when setup_Rmainloop has run and no _initr
   is between setinitialized() and the end of its body. *)
C10_ReadyOnlyAfterInit ==
    isready =>
        /\ mainloopCalls >= 1
        /\ \A t \in Threads :
               pc[t] \notin {"initr_files", "initr_signals",
                             "initr_setcallback", "initr_stacklimit",
                             "initr_mainloop"}

(* C11: the status word never holds the Ended bit without the Initialized
   bit: the Ended bit is only ever set on a status that holds Initialized. *)
C11_EndedOnlyFromInitialized == EndedBitSet => isinitialized

----------------------------------------------------------------------------
(* The lock: _initr and endr calls alone, with every way of leaving a body *)

Waiting(t) == pc[t] \in {"initr_lock", "endr_lock"}

(* a statement of a body, run by the thread that owns the lock *)
BodyStep(t) ==
    \/ initr_check(t)
    \/ initr_environ(t)
    \/ initr_marshal(t)
    \/ \E code \in RStatusCodes : initr_boot(t, code)
    \/ initr_setinitialized(t)
    \/ initr_files(t)
    \/ initr_signals(t)
    \/ initr_setcallback(t)
    \/ initr_stacklimit(t)
    \/ initr_mainloop(t)
    \/ endr_check(t)
    \/ endr_hook(t)
    \/ endr_toggle(t)

NextLock ==
    \E t \in Threads :
        \/ \E arg \in NonAsciiArgs : set_initoptions_check(t, arg)
        \/ set_initoptions_store(t)
        \/ \E interactive \in BOOLEAN, want \in BOOLEAN :
               initr_call(t, interactive, want)
        \/ initr_acquire(t)
        \/ \E fatal \in FatalValues : endr_call(t, fatal)
        \/ endr_acquire(t)
        \/ BodyStep(t)
        \/ initr_boot_raise(t)
        \/ initr_setcallback_raise(t)
        \/ initr_mainloop_raise(t)
        \/ endr_hook_raise(t)

(* the owner of the lock keeps running its body (the native calls return
   or raise), and a thread blocked on the lock obtains it when the lock is
   free again and again *)
FairLock ==
    \A t \in Threads :
        /\ WF_vars(BodyStep(t))
        /\ SF_vars(initr_acquire(t))
        /\ SF_vars(endr_acquire(t))

SpecLock == Init /\ [][NextLock]_vars /\ FairLock

(* C12: the lock is owned only by a thread inside a body, so it is free
   after every return and every raise of _initr and endr, the early returns
   included; and a thread waiting for the lock always gets past the wait. *)
C12_LockReleased ==
    /\ [](\A t \in Threads : rlock = t => InBody(t))
    /\ []((ret.op \in {"_initr", "endr"} /\ ret.kind # "none")
              => rlock = NoThread)
    /\ \A t \in Threads : Waiting(t) ~> ~Waiting(t)

(* an _initr has just raised out of its body while another thread waits
   for the lock *)
C12_Witness ==
    /\ ret.op = "_initr" /\ ret.kind = "raise"
    /\ rlock = NoThread
    /\ \E t \in Threads : Waiting(t)

(* the calls an endr that runs the hooks makes, as far as the first n *)
HooksInOrder(n, fatal) ==
    SubSeq(<< <<"R_dot_Last">>, <<"R_RunExitFinalizers">>,
              <<"Rf_KillAllDevices">>, <<"R_CleanTempDir">>, <<"R_gc">>,
              <<"Rf_endEmbeddedR", fatal>> >>, 1, n)

(* C13: the hooks an endr has called so far are always the first ones of
   R_dot_Last, R_RunExitFinalizers, Rf_KillAllDevices, R_CleanTempDir, R_gc,
   Rf_endEmbeddedR(fatal), each once and the last with the caller's fatal;
   the Ended bit becomes set only in a step taken once all six have
   returned; and an endr that raises leaves the status word as it was, the
   Ended bit unset. *)
C13_HookOrder ==
    /\ [](\A t \in Threads :
            /\ pc[t] = "endr_hook"
                   => /\ loc[t].i \in 1..6
                      /\ hookLog = HooksInOrder(loc[t].i - 1, loc[t].fatal)
            /\ pc[t] = "endr_toggle"
                   => hookLog = HooksInOrder(6, loc[t].fatal))
    /\ [][(EndedBitSet' /\ ~EndedBitSet)
              => \E t \in Threads :
                     /\ pc[t] = "endr_toggle"
                     /\ hookLog = HooksInOrder(6, loc[t].fatal)]_vars
    /\ [][(ret'.op = "endr" /\ ret'.kind = "raise")
              => /\ rpy2_embeddedR_isinitialized'
                        = rpy2_embeddedR_isinitialized
                 /\ ~EndedBitSet']_vars

(* an endr called with fatal = 1 has run the six hooks and is about to set
   the Ended bit, after an earlier endr raised in a hook *)
C13_Witness ==
    /\ \E t \in Threads :
           /\ pc[t] = "endr_toggle"
           /\ loc[t].fatal = 1
           /\ Len(hookLog) = 6
    /\ faults >= 1
    /\ hookRuns >= 2

(* the statements of _initr after Rf_initialize_R has returned *)
AfterBoot ==
    {"initr_setinitialized", "initr_files", "initr_signals",
     "initr_setcallback", "initr_stacklimit", "initr_mainloop"}

(* C14: in the _initr body that performs the initialization, R_HOME is in
   the environment when Rf_initialize_R is invoked; the Initialized bit is
   clear until Rf_initialize_R has returned; when setup_Rmainloop is
   invoked the console files and the signal handlers are disabled and, if
   requested, all the callbacks are bound; setup_Rmainloop has never run
   before the bootstrap; the step that runs setup_Rmainloop ends the call;
   and the value returned is the status code Rf_initialize_R handed back. *)
C14_InitOrder ==
    /\ [](\A t \in Threads :
            /\ pc[t] = "initr_boot" => environ.R_HOME = "openrlib.R_HOME"
            /\ pc[t] \in {"initr_environ", "initr_marshal", "initr_boot",
                          "initr_setinitialized"}
                   => ~isinitialized /\ mainloopCalls = 0
            /\ pc[t] \in AfterBoot => bootCalls >= 1
            /\ pc[t] = "initr_mainloop"
                   => /\ rvars.R_Outputfile = "ffi.NULL"
                      /\ rvars.R_Consolefile = "ffi.NULL"
                      /\ rvars.R_SignalHandlers = "0"
                      /\ loc[t].want
                            => slotLog = [i \in 1..Len(CALLBACK_INIT_PAIRS)
                                             |-> CALLBACK_INIT_PAIRS[i][1]])
    /\ [](isinitialized \/ mainloopCalls >= 1 => bootCalls >= 1)
    /\ [][\A t \in Threads :
            /\ \A code \in RStatusCodes :
                   initr_boot(t, code) => loc'[t].status = code
            /\ (pc[t] \in AfterBoot /\ pc'[t] # "idle")
                   => loc'[t].status = loc[t].status
            /\ initr_mainloop(t)
                   => /\ pc'[t] = "idle"
                      /\ mainloopCalls' >= 1
                      /\ ret' = [op |-> "_initr", kind |-> "return",
                                 exc |-> "", val |-> loc[t].status]]_vars

(* an _initr that bound the callbacks has just returned the status code 1
   that Rf_initialize_R handed back *)
C14_Witness ==
    /\ ret = [op |-> "_initr", kind |-> "return", exc |-> "", val |-> 1]
    /\ firstInitr = [want |-> TRUE, outcome |-> "returned"]
    /\ mainloopCalls = 1
    /\ bootCalls = 1

(* C15: the Initialized bit, once set, stays set; and every step of an
   _initr call taken while it is set (the call, the lock, the test of line
   107) leaves the status word, the options, R_HOME, the callback slots and
   the other R globals as they were and invokes no native entry point,
   whatever the arguments; the test then returns None at once. *)
C15_InitrNoOp ==
    /\ [][isinitialized => isinitialized']_vars
    /\ [][\A t \in Threads :
            (/\ isinitialized
             /\ \/ \E interactive \in BOOLEAN, want \in BOOLEAN :
                       initr_call(t, interactive, want)
                \/ initr_acquire(t)
                \/ initr_check(t))
                => /\ UNCHANGED <<rpy2_embeddedR_isinitialized, options,
                                  environ, rlib, rvars, bootCalls, bootArgs,
                                  mainloopCalls, hookRuns, slotLog>>
                   /\ pc[t] = "initr_check"
                          => /\ pc'[t] = "idle"
                             /\ rlock' = NoThread
                             /\ ret' = ReturnedNone("_initr")]_vars

(* an _initr called after a first _initr without callbacks and an endr has
   returned at once: the slots still hold R's defaults *)
C15_Witness ==
    /\ ret = ReturnedNone("_initr")
    /\ rpy2_embeddedR_isinitialized = INITIALIZED + ENDED
    /\ firstInitr = [want |-> FALSE, outcome |-> "returned"]
    /\ \A s \in SlotNames : rlib[s] = RDefault
    /\ mainloopCalls = 1

(* C16: no step changes the stored options in a state where the
   Initialized bit is set, and while it is set the stored options are the
   vector that was marshalled for Rf_initialize_R. *)
C16_OptionsFixedOnceInitialized ==
    /\ [][isinitialized => options' = options]_vars
    /\ [](isinitialized => MarshalOptions(get_initoptions) = bootArgs)

(* C17: no step clears the Ended bit, and no step makes isready() true or
   invokes Rf_initialize_R once the Ended bit is set. *)
C17_EndedAbsorbing ==
    [][EndedBitSet => /\ EndedBitSet'
                      /\ ~isready'
                      /\ bootCalls' = bootCalls]_vars

(* C18: the Busy bit is never set; isready() is true exactly when the
   status word is INITIALIZED, which is exactly when isinitialized() is true
   and the Ended bit is clear, so isready() implies isinitialized(); and an
   assert_isready call raises RNotReadyError exactly when isready() is
   false, returns None otherwise, and changes nothing else either way. *)
C18_PredicatesAgree ==
    /\ [](/\ BitAnd(rpy2_embeddedR_isinitialized, BUSY) = 0
          /\ isready <=> rpy2_embeddedR_isinitialized = 1
          /\ isready <=> (isinitialized /\ ~EndedBitSet)
          /\ isready => isinitialized)
    /\ [][\A t \in Threads :
            AssertIsready(t)
                => /\ ret' = IF isready
                             THEN ReturnedNone("assert_isready")
                             ELSE Raised("assert_isready", "RNotReadyError")
                   /\ UNCHANGED <<rpy2_embeddedR_isinitialized, options,
                                  rlock, environ, rlib, rvars, pc, loc,
                                  bootCalls, mainloopCalls, hookRuns,
                                  slotLog>>]_vars

(* assert_isready has just raised after an _initr and an endr returned:
   Initialized and Ended are both set *)
C18_Witness ==
    /\ ret = Raised("assert_isready", "RNotReadyError")
    /\ rpy2_embeddedR_isinitialized = INITIALIZED + ENDED
    /\ isinitialized
    /\ ~isready

(* an initialization was cut short after the status was marked and its
   body has been left: setup_Rmainloop has never run *)
CutShort ==
    /\ isinitialized
    /\ mainloopCalls = 0
    /\ \A t \in Threads : pc[t] \notin AfterBoot

(* C19: when Rf_initialize_R raises, the status word is left as it was with
   the Initialized bit clear, R_HOME stays set, and the next _initr goes on
   to the bootstrap; when a callback lookup or setup_Rmainloop raises, the
   status word stays INITIALIZED, so isready() is true, with nothing bound
   or run by way of recovery; and from then on no step runs
   setup_Rmainloop, binds a callback or invokes Rf_initialize_R: every
   later _initr returns at line 108. *)
C19_NoRollback ==
    /\ [][\A t \in Threads :
            /\ initr_boot_raise(t)
                   => /\ rpy2_embeddedR_isinitialized'
                             = rpy2_embeddedR_isinitialized
                      /\ ~isinitialized'
                      /\ environ'.R_HOME = "openrlib.R_HOME"
            /\ (initr_check(t) /\ ~isinitialized)
                   => pc'[t] = "initr_environ"
            /\ (initr_setcallback_raise(t) \/ initr_mainloop_raise(t))
                   => /\ rpy2_embeddedR_isinitialized' = INITIALIZED
                      /\ isready'
                      /\ UNCHANGED <<rlib, rvars, environ, slotLog,
                                     mainloopCalls>>]_vars
    /\ [][CutShort
              => /\ CutShort'
                 /\ UNCHANGED <<slotLog, rlib, bootCalls, mainloopCalls>>
                 /\ \A t \in Threads :
                        pc[t] = "initr_check"
                            => /\ pc'[t] \in {"initr_check", "idle"}
                               /\ pc'[t] = "idle"
                                      => ret' = ReturnedNone("_initr")]_vars

(* after setup_Rmainloop raised in the first _initr, a later _initr has
   just returned at once and isready() is true *)
C19_Witness ==
    /\ CutShort
    /\ isready
    /\ faults = 1
    /\ firstInitr.outcome = "raised"
    /\ Len(slotLog) = Len(CALLBACK_INIT_PAIRS)
    /\ ret = ReturnedNone("_initr")

====
